---- MODULE Spec2Model ----
(***************************************************************************)
(* Model of tools/frame_generator.py: the colour utilities, the five frame *)
(* generators and main().  A frame is kept as the ordered list of drawing  *)
(* operations applied to a fully transparent canvas; Pixel() replays the   *)
(* list at one coordinate.                                                 *)
(***************************************************************************)
EXTENDS Integers, Sequences, FiniteSets, TLC

VARIABLES
    pc,         \* position in the call being modelled
    hex_color,  \* argument of the colour utilities
    alpha,      \* alpha argument of hex_to_rgba (None: defaulted)
    ret,        \* value returned or exception raised by the call
    argv,       \* command line: sequence of <<flag, value>>
    config,     \* content of the JSON config file: sequence of <<key, value>>
    files,      \* image files that exist: path -> side of the (square) image
    args,       \* argparse namespace of main
    kw,         \* keyword arguments of the generator call
    frame,      \* the frame returned by the generator
    invoked,    \* generators called so far
    saved       \* frames written by save_frame

vars == <<pc, hex_color, alpha, ret, argv, config, files, args, kw, frame,
          invoked, saved>>

(***************************************************************************)
(* Program constants.                                                      *)
(***************************************************************************)
IPAD_WIDTH == 2048
IPAD_HEIGHT == 2732
DEFAULT_BORDER_WIDTH == 80
DEFAULT_CORNER_RADIUS == 60

(***************************************************************************)
(* Bounds of the model.                                                    *)
(***************************************************************************)
MaxHexLen == 7
AlphaSlack == 2

None == "None"

Min(a, b) == IF a < b THEN a ELSE b
Max(a, b) == IF a > b THEN a ELSE b
Abs(a) == IF a < 0 THEN -a ELSE a

(***************************************************************************)
(* Results of a call: a value, or the exception it raised.                 *)
(***************************************************************************)
Ok(v) == [ok |-> TRUE, val |-> v, err |-> "none"]
Raise(e) == [ok |-> FALSE, val |-> <<>>, err |-> e]

(***************************************************************************)
(* Strings are sequences of one-character strings.                         *)
(***************************************************************************)
HexDigitValue(c) ==
    CASE c = "0" -> 0 [] c = "1" -> 1 [] c = "2" -> 2 [] c = "3" -> 3
      [] c = "4" -> 4 [] c = "5" -> 5 [] c = "6" -> 6 [] c = "7" -> 7
      [] c = "8" -> 8 [] c = "9" -> 9
      [] c \in {"a", "A"} -> 10 [] c \in {"b", "B"} -> 11
      [] c \in {"c", "C"} -> 12 [] c \in {"d", "D"} -> 13
      [] c \in {"e", "E"} -> 14 [] c \in {"f", "F"} -> 15
      [] OTHER -> -1

IsHexDigit(c) == HexDigitValue(c) >= 0

\* s[i:j] of Python, 0-based, clamped to the string.
Slice(s, i, j) == SubSeq(s, Min(i, Len(s)) + 1, Min(j, Len(s)))

\* Variant: one leading '#' removed.
LStripOneHash(s) == IF s # <<>> /\ Head(s) = "#" THEN Tail(s) ELSE s

\* str.lstrip('#'): every leading '#' is removed.
RECURSIVE LStripHash(_)
LStripHash(s) ==
    IF s # <<>> /\ Head(s) = "#" THEN LStripHash(Tail(s)) ELSE s

\* str.strip() of whitespace, as int() applies it to its argument.
RECURSIVE StripSpace(_)
StripSpace(s) ==
    IF s # <<>> /\ Head(s) = " " THEN StripSpace(Tail(s))
    ELSE IF s # <<>> /\ s[Len(s)] = " " THEN StripSpace(SubSeq(s, 1, Len(s) - 1))
    ELSE s

\* Value of a non-empty run of hex digits.
RECURSIVE DigitsValue(_)
DigitsValue(s) ==
    IF s = <<>> THEN 0
    ELSE 16 * DigitsValue(SubSeq(s, 1, Len(s) - 1)) + HexDigitValue(s[Len(s)])

AllHex(s) == \A k \in 1..Len(s) : IsHexDigit(s[k])

\* int(s, 16) on a slice of at most two characters: surrounding blanks and one
\* sign are accepted, then at least one hex digit and nothing else.
IntBase16(s) ==
    LET t == StripSpace(s)
        signed == t # <<>> /\ Head(t) \in {"+", "-"}
        d == IF signed THEN Tail(t) ELSE t
    IN  IF d = <<>> \/ ~AllHex(d) THEN Raise("ValueError")
        ELSE IF signed /\ Head(t) = "-" THEN Ok(-DigitsValue(d))
        ELSE Ok(DigitsValue(d))

hex_to_rgb(s) ==
    LET h == LStripHash(s)
        r == IntBase16(Slice(h, 0, 2))
        g == IntBase16(Slice(h, 2, 4))
        b == IntBase16(Slice(h, 4, 6))
    IN  IF r.ok /\ g.ok /\ b.ok THEN Ok(<<r.val, g.val, b.val>>)
        ELSE Raise("ValueError")

\* Variant: the alpha channel clamped to a byte.
hex_to_rgba_clamped(s, a) ==
    LET rgb == hex_to_rgb(s)
    IN  IF rgb.ok
        THEN Ok(<<rgb.val[1], rgb.val[2], rgb.val[3], Max(0, Min(255, a))>>)
        ELSE rgb

hex_to_rgba(s, a) ==
    LET rgb == hex_to_rgb(s)
    IN  IF rgb.ok THEN Ok(<<rgb.val[1], rgb.val[2], rgb.val[3], a>>)
        ELSE rgb

DefaultAlpha == 255


(***************************************************************************)
(* Drawing primitives of the imaging library, as the generators use them.  *)
(* A pixel belongs to an ellipse when its centre lies inside the ellipse   *)
(* inscribed in the pixel extent of the bounding box.                      *)
(***************************************************************************)
Transparent == <<0, 0, 0, 0>>

InBox(x, y, x0, y0, x1, y1) == x0 <= x /\ x <= x1 /\ y0 <= y /\ y <= y1

InEllipse(x, y, x0, y0, x1, y1) ==
    /\ InBox(x, y, x0, y0, x1, y1)
    /\ LET a == x1 - x0 + 1
           b == y1 - y0 + 1
           X == 2 * x - x0 - x1
           Y == 2 * y - y0 - y1
       IN  X * X * b * b + Y * Y * a * a <= a * a * b * b

\* ImageDraw.rounded_rectangle(fill=...): corners joined when the diameter
\* reaches the box, an ellipse when joined both ways, a rectangle for radius 0.
InRoundedRect(x, y, x0, y0, x1, y1, radius) ==
    /\ InBox(x, y, x0, y0, x1, y1)
    /\ LET d0 == 2 * radius
           full_x == d0 >= x1 - x0 - 1
           d1 == IF full_x THEN x1 - x0 ELSE d0
           full_y == d1 >= y1 - y0 - 1
           d == IF full_y THEN y1 - y0 ELSE d1
           r == d \div 2
           left == x <= x0 + r
           right == x >= x1 - r
           top == y <= y0 + r
           bottom == y >= y1 - r
           ex0 == IF left THEN x0 ELSE x1 - d
           ey0 == IF top THEN y0 ELSE y1 - d
       IN  IF full_x /\ full_y THEN InEllipse(x, y, x0, y0, x1, y1)
           ELSE IF d = 0 THEN TRUE
           ELSE IF (left \/ right) /\ (top \/ bottom)
                THEN InEllipse(x, y, ex0, ey0, ex0 + d, ey0 + d)
           ELSE TRUE

\* ImageDraw.rounded_rectangle(outline=..., width=lw): the pixels of the shape
\* that are not in the shape drawn lw pixels further in.
OnRoundedOutline(x, y, x0, y0, x1, y1, radius, lw) ==
    /\ InRoundedRect(x, y, x0, y0, x1, y1, radius)
    /\ \/ x1 - lw < x0 + lw
       \/ y1 - lw < y0 + lw
       \/ ~InRoundedRect(x, y, x0 + lw, y0 + lw, x1 - lw, y1 - lw,
                         Max(0, Min(radius, Min(x1 - x0, y1 - y0) \div 2) - lw))

(***************************************************************************)
(* Drawing operations recorded in a frame.                                 *)
(***************************************************************************)
FillRounded(tag, x0, y0, x1, y1, radius, ink) ==
    [kind |-> "fill", tag |-> tag, x0 |-> x0, y0 |-> y0, x1 |-> x1, y1 |-> y1,
     radius |-> radius, ink |-> ink]

OutlineRounded(tag, x0, y0, x1, y1, radius, ink, lw) ==
    [kind |-> "outline", tag |-> tag, x0 |-> x0, y0 |-> y0, x1 |-> x1,
     y1 |-> y1, radius |-> radius, ink |-> ink, lw |-> lw]

\* Image.paste(colour, (x, y), mask) with a rounded-rectangle mask.
PasteMasked(tag, x, y, w, h, radius, ink) ==
    [kind |-> "fill", tag |-> tag, x0 |-> x, y0 |-> y, x1 |-> x + w - 1,
     y1 |-> y + h - 1, radius |-> radius, ink |-> ink]

Ellipse(tag, x0, y0, x1, y1, ink) ==
    [kind |-> "ellipse", tag |-> tag, x0 |-> x0, y0 |-> y0, x1 |-> x1,
     y1 |-> y1, ink |-> ink]

Covers(op, x, y) ==
    CASE op.kind = "fill" ->
            InRoundedRect(x, y, op.x0, op.y0, op.x1, op.y1, op.radius)
      [] op.kind = "outline" ->
            OnRoundedOutline(x, y, op.x0, op.y0, op.x1, op.y1, op.radius, op.lw)
      [] op.kind = "ellipse" ->
            InEllipse(x, y, op.x0, op.y0, op.x1, op.y1)
      [] op.kind = "gradient" ->
            \/ x < op.border_width
            \/ x >= op.width - op.border_width
            \/ y < op.border_width
            \/ y >= op.height - op.border_width
      [] op.kind = "alpha_mask" ->
            ~InRoundedRect(x, y, op.x0, op.y0, op.x1, op.y1, op.radius)
      [] OTHER -> FALSE

\* int(start + (end - start) * t) for t = num / den.  The value lies between
\* the two channels, so truncation is the floor; the double-precision result
\* equals the exact one for every canvas size and colour pair of
\* GradientCalls, and in the last column (num = den - 1) for every den < 3000.
Interpolate(s, e, num, den) == (s * den + (e - s) * num) \div den

\* Variant: the gradient running from the end colour to the start colour.
GradientColourReversed(op, x, y) ==
    LET num == CASE op.direction = "horizontal" -> x
                 [] op.direction = "vertical" -> y
                 [] OTHER -> x + y
        den == CASE op.direction = "horizontal" -> op.width
                 [] op.direction = "vertical" -> op.height
                 [] OTHER -> op.width + op.height
    IN  <<Interpolate(op.end_rgb[1], op.start_rgb[1], num, den),
          Interpolate(op.end_rgb[2], op.start_rgb[2], num, den),
          Interpolate(op.end_rgb[3], op.start_rgb[3], num, den), 255>>

GradientColour(op, x, y) ==
    LET num == CASE op.direction = "horizontal" -> x
                 [] op.direction = "vertical" -> y
                 [] OTHER -> x + y
        den == CASE op.direction = "horizontal" -> op.width
                 [] op.direction = "vertical" -> op.height
                 [] OTHER -> op.width + op.height
    IN  <<Interpolate(op.start_rgb[1], op.end_rgb[1], num, den),
          Interpolate(op.start_rgb[2], op.end_rgb[2], num, den),
          Interpolate(op.start_rgb[3], op.end_rgb[3], num, den), 255>>

\* The pixel an operation that covers (x, y) leaves there; under is the pixel
\* before it.
Painted(op, under, x, y) ==
    CASE op.kind = "gradient" -> GradientColour(op, x, y)
      [] op.kind = "alpha_mask" -> <<under[1], under[2], under[3], 0>>
      [] OTHER -> op.ink

RECURSIVE PixelAfter(_, _, _, _)
PixelAfter(ops, n, x, y) ==
    IF n = 0 THEN Transparent
    ELSE IF Covers(ops[n], x, y)
         THEN IF ops[n].kind = "alpha_mask"
              THEN Painted(ops[n], PixelAfter(ops, n - 1, x, y), x, y)
              ELSE Painted(ops[n], Transparent, x, y)
    ELSE PixelAfter(ops, n - 1, x, y)

\* frame.getpixel((x, y))
Pixel(f, x, y) == PixelAfter(f.val.ops, Len(f.val.ops), x, y)

Image(w, h, ops) == Ok([width |-> w, height |-> h, ops |-> ops])


(***************************************************************************)
(* generate_simple_border_frame                                            *)
(***************************************************************************)
\* The pairs <<glow_width, i>>, glow_width <= 90, at which the double
\* expression 80 * (1 - i / glow_width) lands just below the integer that
\* exact arithmetic gives, so that int() yields one less.
FloatShortfall ==
    { <<5, 4>>, <<10, 8>>, <<10, 9>>, <<15, 12>>, <<20, 16>>, <<20, 18>>,
      <<25, 20>>, <<30, 24>>, <<30, 27>>, <<35, 28>>, <<40, 27>>, <<40, 32>>,
      <<40, 36>>, <<40, 37>>, <<45, 36>>, <<50, 40>>, <<50, 45>>, <<55, 44>>,
      <<60, 48>>, <<60, 54>>, <<65, 52>>, <<70, 56>>, <<70, 63>>, <<75, 60>>,
      <<80, 49>>, <<80, 54>>, <<80, 59>>, <<80, 64>>, <<80, 67>>, <<80, 69>>,
      <<80, 72>>, <<80, 74>>, <<80, 77>>, <<80, 79>>, <<85, 68>>, <<90, 72>>,
      <<90, 81>> }

\* alpha = int(80 * (1 - i / glow_width))
GlowAlpha(i, glow_width) ==
    (80 * (glow_width - i)) \div glow_width
        - (IF <<glow_width, i>> \in FloatShortfall THEN 1 ELSE 0)

\* Variant: the outlines stepping inward from the inner edge.
GlowOffsetInward(i, border_width) == border_width + i

\* offset = border_width - glow_width + i
GlowOffset(i, border_width) == border_width - (border_width \div 3) + i

GlowOutline(i, width, height, border_width, rgb, corner_radius) ==
    LET offset == GlowOffset(i, border_width)
    IN  OutlineRounded("glow", offset, offset, width - offset - 1,
                       height - offset - 1, Max(0, corner_radius - offset),
                       <<rgb[1], rgb[2], rgb[3],
                         GlowAlpha(i, border_width \div 3)>>, 1)

\* The interior cutout shared by the generators: its box and corner radius.
\* Variant: the cutout pasted one pixel too far out.
InnerXShifted(border_width) == border_width - 1

InnerX(border_width) == border_width
InnerW(width, border_width) == width - border_width * 2
InnerH(height, border_width) == height - border_width * 2
InnerRadius(corner_radius, border_width) ==
    Max(0, corner_radius - border_width \div 2)

Cutout(width, height, border_width, corner_radius) ==
    PasteMasked("cutout", InnerX(border_width), InnerX(border_width),
                InnerW(width, border_width), InnerH(height, border_width),
                InnerRadius(corner_radius, border_width), Transparent)

\* Image.new refuses a negative size and rounded_rectangle an empty box.
InnerEmpty(width, height, border_width) ==
    InnerW(width, border_width) <= 0 \/ InnerH(height, border_width) <= 0

generate_simple_border_frame(width, height, border_width, border_color, corner_radius, inner_glow) ==
    LET color_rgba == hex_to_rgba(border_color, DefaultAlpha)
        glow_width == border_width \div 3
    IN  IF ~color_rgba.ok THEN color_rgba
        ELSE IF InnerEmpty(width, height, border_width) THEN Raise("ValueError")
        ELSE Image(width, height,
                 <<FillRounded("border", 0, 0, width - 1, height - 1,
                               corner_radius, color_rgba.val),
                   Cutout(width, height, border_width, corner_radius)>>
                 \o (IF inner_glow
                     THEN [k \in 1..glow_width |->
                             GlowOutline(k - 1, width, height, border_width,
                                         color_rgba.val, corner_radius)]
                     ELSE <<>>))

(***************************************************************************)
(* generate_decorative_frame                                               *)
(***************************************************************************)
CornerSize(border_width) == border_width * 2

CornerAnchors(width, height, border_width) ==
    LET corner_size == CornerSize(border_width)
    IN  <<<<corner_size, corner_size>>,
          <<width - corner_size, corner_size>>,
          <<corner_size, height - corner_size>>,
          <<width - corner_size, height - corner_size>>>>

CornerDecorations(width, height, border_width, secondary_rgba, accent_rgba) ==
    LET c == CornerAnchors(width, height, border_width)
    IN  [k \in 1..8 |->
            LET cx == c[(k + 1) \div 2][1]
                cy == c[(k + 1) \div 2][2]
            IN  IF k % 2 = 1
                THEN Ellipse("corner", cx - 20, cy - 20, cx + 20, cy + 20,
                             secondary_rgba)
                ELSE Ellipse("corner", cx - 10, cy - 10, cx + 10, cy + 10,
                             accent_rgba)]

generate_decorative_frame(width, height, primary_color, secondary_color, accent_color, border_width, corner_style, show_corners) ==
    LET primary_rgba == hex_to_rgba(primary_color, DefaultAlpha)
        secondary_rgba == hex_to_rgba(secondary_color, DefaultAlpha)
        accent_rgba == hex_to_rgba(accent_color, DefaultAlpha)
        corner_radius == IF corner_style = "rounded"
                         THEN DEFAULT_CORNER_RADIUS ELSE 0
        accent_offset == border_width \div 4
    IN  IF ~primary_rgba.ok THEN primary_rgba
        ELSE IF ~secondary_rgba.ok THEN secondary_rgba
        ELSE IF ~accent_rgba.ok THEN accent_rgba
        ELSE IF InnerEmpty(width, height, border_width) THEN Raise("ValueError")
        ELSE Image(width, height,
                 <<FillRounded("border", 0, 0, width - 1, height - 1,
                               corner_radius, primary_rgba.val),
                   OutlineRounded("accent", accent_offset, accent_offset,
                                  width - accent_offset - 1,
                                  height - accent_offset - 1,
                                  Max(0, corner_radius - accent_offset),
                                  accent_rgba.val, 2),
                   Cutout(width, height, border_width, corner_radius)>>
                 \o (IF show_corners
                     THEN CornerDecorations(width, height, border_width,
                                            secondary_rgba.val, accent_rgba.val)
                     ELSE <<>>))

(***************************************************************************)
(* generate_gradient_frame                                                 *)
(***************************************************************************)
GradientFill(width, height, border_width, direction, start_rgb, end_rgb) ==
    [kind |-> "gradient", tag |-> "border", width |-> width,
     height |-> height, border_width |-> border_width,
     direction |-> direction, start_rgb |-> start_rgb, end_rgb |-> end_rgb]

\* The alpha channel composited through create_rounded_rectangle_mask: alpha
\* becomes 0 outside the mask, the colour channels are kept.
OuterRounding(width, height, radius) ==
    [kind |-> "alpha_mask", tag |-> "silhouette", x0 |-> 0, y0 |-> 0,
     x1 |-> width - 1, y1 |-> height - 1, radius |-> radius]

generate_gradient_frame(width, height, start_color, end_color, border_width, gradient_direction) ==
    LET start_rgb == hex_to_rgb(start_color)
        end_rgb == hex_to_rgb(end_color)
    IN  IF ~start_rgb.ok THEN start_rgb
        ELSE IF ~end_rgb.ok THEN end_rgb
        ELSE IF InnerEmpty(width, height, border_width) THEN Raise("ValueError")
        ELSE Image(width, height,
                 <<GradientFill(width, height, border_width,
                                gradient_direction, start_rgb.val, end_rgb.val),
                   OuterRounding(width, height, DEFAULT_CORNER_RADIUS),
                   Cutout(width, height, border_width, DEFAULT_CORNER_RADIUS)>>)


(***************************************************************************)
(* generate_text_frame                                                     *)
(***************************************************************************)
\* Python truthiness of an optional string.
Truthy(v) == v # None /\ v # ""

\* draw_centered_text: the shadow at (x + 2, y + 2), then the text at (x, y);
\* x centres the measured text and depends on the font.
DrawCenteredText(text, y, font, text_rgba) ==
    <<[kind |-> "text", tag |-> "shadow", text |-> text, y |-> y + 2,
       font |-> font, ink |-> <<0, 0, 0, 128>>],
      [kind |-> "text", tag |-> "text", text |-> text, y |-> y,
       font |-> font, ink |-> text_rgba]>>

BottomTextY(height, border_width) ==
    height - border_width + (border_width - 48) \div 2

TopTextY(border_width) == (border_width - 48) \div 2

BottomText(height, event_name, event_date, border_width, text_position, text_rgba) ==
    IF text_position \in {"bottom", "both"}
    THEN LET text_y == BottomTextY(height, border_width)
             date_y == text_y + 50
         IN  DrawCenteredText(event_name, text_y, "title_font", text_rgba)
             \o (IF Truthy(event_date) /\ date_y + 32 < height
                 THEN DrawCenteredText(event_date, date_y, "date_font",
                                       text_rgba)
                 ELSE <<>>)
    ELSE <<>>

\* Variant: the top band always carries the event name.
TopTextNameOnly(event_name, event_date, border_width, text_position, text_rgba) ==
    IF text_position \in {"top", "both"}
    THEN DrawCenteredText(event_name, TopTextY(border_width), "title_font",
                          text_rgba)
    ELSE <<>>

TopText(event_name, event_date, border_width, text_position, text_rgba) ==
    IF text_position \in {"top", "both"}
    THEN LET text_y == TopTextY(border_width)
         IN  IF text_position = "both" /\ Truthy(event_date)
             THEN DrawCenteredText(event_date, text_y + 8, "date_font",
                                   text_rgba)
             ELSE DrawCenteredText(event_name, text_y, "title_font", text_rgba)
    ELSE <<>>

generate_text_frame(width, height, event_name, event_date, primary_color, text_color, border_width, text_position, font_path) ==
    LET base == generate_simple_border_frame(width, height, border_width,
                    primary_color, DEFAULT_CORNER_RADIUS, TRUE)
        text_rgba == hex_to_rgba(text_color, DefaultAlpha)
    IN  IF ~base.ok THEN base
        ELSE IF ~text_rgba.ok THEN text_rgba
        ELSE Image(width, height,
                 base.val.ops
                 \o BottomText(height, event_name, event_date, border_width,
                               text_position, text_rgba.val)
                 \o TopText(event_name, event_date, border_width,
                            text_position, text_rgba.val))

(***************************************************************************)
(* generate_logo_frame                                                     *)
(***************************************************************************)
\* logo_path and Path(logo_path).exists()
LogoPresent(fs, logo_path) == Truthy(logo_path) /\ logo_path \in DOMAIN fs

\* logo.thumbnail((logo_size, logo_size)) of a square image.
ThumbnailSide(side, logo_size) == Min(side, logo_size)

LogoPaste(fs, width, height, logo_path, border_width, logo_position, logo_size) ==
    LET side == ThumbnailSide(fs[logo_path], logo_size)
        x == IF logo_position = "corners"
             THEN width - border_width + (border_width - side) \div 2
             ELSE (width - side) \div 2
        y == IF logo_position = "top"
             THEN (border_width - side) \div 2
             ELSE height - border_width + (border_width - side) \div 2
    IN  [kind |-> "paste_image", tag |-> "logo", path |-> logo_path,
         x0 |-> x, y0 |-> y, x1 |-> x + side - 1, y1 |-> y + side - 1]

\* Variant: the base frame generated without its inner glow.
generate_logo_frame_plain(fs, width, height, logo_path, primary_color, border_width, logo_position, logo_size) ==
    LET base == generate_simple_border_frame(width, height, border_width,
                    primary_color, DEFAULT_CORNER_RADIUS, FALSE)
    IN  IF ~base.ok THEN base
        ELSE IF LogoPresent(fs, logo_path)
        THEN Image(width, height,
                   Append(base.val.ops,
                          LogoPaste(fs, width, height, logo_path, border_width,
                                    logo_position, logo_size)))
        ELSE base

generate_logo_frame(fs, width, height, logo_path, primary_color, border_width, logo_position, logo_size) ==
    LET base == generate_simple_border_frame(width, height, border_width,
                    primary_color, DEFAULT_CORNER_RADIUS, TRUE)
    IN  IF ~base.ok THEN base
        ELSE IF LogoPresent(fs, logo_path)
        THEN Image(width, height,
                   Append(base.val.ops,
                          LogoPaste(fs, width, height, logo_path, border_width,
                                    logo_position, logo_size)))
        ELSE base


(***************************************************************************)
(* The generator call: keyword arguments to frame.                         *)
(***************************************************************************)
FrameTypes == {"simple", "decorative", "text", "gradient", "logo"}

CallGenerator(fs, k) ==
    CASE k.fn = "simple" ->
            generate_simple_border_frame(k.width, k.height, k.border_width,
                k.border_color, k.corner_radius, k.inner_glow)
      [] k.fn = "decorative" ->
            generate_decorative_frame(k.width, k.height, k.primary_color,
                k.secondary_color, k.accent_color, k.border_width,
                k.corner_style, k.show_corners)
      [] k.fn = "text" ->
            generate_text_frame(k.width, k.height, k.event_name, k.event_date,
                k.primary_color, k.text_color, k.border_width,
                k.text_position, k.font_path)
      [] k.fn = "gradient" ->
            generate_gradient_frame(k.width, k.height, k.start_color,
                k.end_color, k.border_width, k.gradient_direction)
      [] k.fn = "logo" ->
            generate_logo_frame(fs, k.width, k.height, k.logo_path,
                k.primary_color, k.border_width, k.logo_position, k.logo_size)

(***************************************************************************)
(* main: the argparse namespace.  Attribute names and config keys are      *)
(* sequences of words and separators, so that key.replace('-', '_') is     *)
(* computed on the key.                                                    *)
(***************************************************************************)
A_type == <<"type">>
A_config == <<"config">>
A_output == <<"output">>
A_width == <<"width">>
A_height == <<"height">>
A_border_width == <<"border", "_", "width">>
A_color == <<"color">>
A_secondary_color == <<"secondary", "_", "color">>
A_accent_color == <<"accent", "_", "color">>
A_text_color == <<"text", "_", "color">>
A_start_color == <<"start", "_", "color">>
A_end_color == <<"end", "_", "color">>
A_gradient_direction == <<"gradient", "_", "direction">>
A_event == <<"event">>
A_date == <<"date">>
A_text_position == <<"text", "_", "position">>
A_font == <<"font">>
A_logo == <<"logo">>
A_logo_position == <<"logo", "_", "position">>
A_logo_size == <<"logo", "_", "size">>

Pink == <<"#", "F", "F", "4", "0", "8", "1">>
Dark == <<"#", "2", "1", "2", "1", "2", "1">>
White == <<"#", "F", "F", "F", "F", "F", "F">>
Purple == <<"#", "7", "B", "1", "F", "A", "2">>
Black == <<"#", "0", "0", "0", "0", "0", "0">>
Teal == <<"0", "0", "8", "0", "8", "0">>

\* The defaults of parser.add_argument.
Defaults ==
    (A_type :> "simple") @@ (A_config :> None) @@ (A_output :> "frame.png")
    @@ (A_width :> IPAD_WIDTH) @@ (A_height :> IPAD_HEIGHT)
    @@ (A_border_width :> DEFAULT_BORDER_WIDTH)
    @@ (A_color :> Pink) @@ (A_secondary_color :> Dark)
    @@ (A_accent_color :> White) @@ (A_text_color :> White)
    @@ (A_start_color :> Pink) @@ (A_end_color :> Purple)
    @@ (A_gradient_direction :> "diagonal")
    @@ (A_event :> "Event") @@ (A_date :> None)
    @@ (A_text_position :> "bottom") @@ (A_font :> None)
    @@ (A_logo :> None) @@ (A_logo_position :> "bottom")
    @@ (A_logo_size :> 150)

\* Option strings are sequences of words and separators too.  The attribute
\* an option stores to is named by its first long option string.
Dest(flag) ==
    CASE flag = <<"--", "type">> -> A_type
      [] flag = <<"--", "config">> -> A_config
      [] flag \in {<<"--", "output">>, <<"-", "o">>} -> A_output
      [] flag = <<"--", "width">> -> A_width
      [] flag = <<"--", "height">> -> A_height
      [] flag = <<"--", "border", "-", "width">> -> A_border_width
      [] flag \in {<<"--", "color">>, <<"--", "primary", "-", "color">>} -> A_color
      [] flag = <<"--", "secondary", "-", "color">> -> A_secondary_color
      [] flag = <<"--", "accent", "-", "color">> -> A_accent_color
      [] flag = <<"--", "text", "-", "color">> -> A_text_color
      [] flag = <<"--", "start", "-", "color">> -> A_start_color
      [] flag = <<"--", "end", "-", "color">> -> A_end_color
      [] flag = <<"--", "gradient", "-", "direction">> -> A_gradient_direction
      [] flag \in {<<"--", "event">>, <<"--", "event", "-", "name">>} -> A_event
      [] flag \in {<<"--", "date">>, <<"--", "event", "-", "date">>} -> A_date
      [] flag = <<"--", "text", "-", "position">> -> A_text_position
      [] flag = <<"--", "font">> -> A_font
      [] flag = <<"--", "logo">> -> A_logo
      [] flag = <<"--", "logo", "-", "position">> -> A_logo_position
      [] flag = <<"--", "logo", "-", "size">> -> A_logo_size

OptionStrings ==
    {<<"--", "type">>,
     <<"--", "config">>,
     <<"--", "output">>,
     <<"-", "o">>,
     <<"--", "width">>,
     <<"--", "height">>,
     <<"--", "border", "-", "width">>,
     <<"--", "color">>,
     <<"--", "primary", "-", "color">>,
     <<"--", "secondary", "-", "color">>,
     <<"--", "accent", "-", "color">>,
     <<"--", "text", "-", "color">>,
     <<"--", "start", "-", "color">>,
     <<"--", "end", "-", "color">>,
     <<"--", "gradient", "-", "direction">>,
     <<"--", "event">>,
     <<"--", "event", "-", "name">>,
     <<"--", "date">>,
     <<"--", "event", "-", "date">>,
     <<"--", "text", "-", "position">>,
     <<"--", "font">>,
     <<"--", "logo">>,
     <<"--", "logo", "-", "position">>,
     <<"--", "logo", "-", "size">>}

\* parser.parse_args(): later options overwrite earlier ones.
RECURSIVE parse_args(_)
parse_args(av) ==
    IF av = <<>> THEN Defaults
    ELSE LET last == av[Len(av)]
         IN  [parse_args(SubSeq(av, 1, Len(av) - 1))
                 EXCEPT ![Dest(last[1])] = last[2]]

\* Variant: the key looked up as written.
ReplaceNothing(key) == key

\* key.replace('-', '_')
ReplaceHyphens(key) ==
    [i \in 1..Len(key) |-> IF key[i] = "-" THEN "_" ELSE key[i]]

\* for key, value in config.items(): if hasattr(...): setattr(...)
RECURSIVE ApplyConfig(_, _)
ApplyConfig(a, cfg) ==
    IF cfg = <<>> THEN a
    ELSE LET name == ReplaceHyphens(Head(cfg)[1])
             b == IF name \in DOMAIN a
                  THEN [a EXCEPT ![name] = Head(cfg)[2]] ELSE a
         IN  ApplyConfig(b, Tail(cfg))

\* The keyword arguments main passes, with the generator's own defaults for
\* the parameters main leaves out.
SimpleKw(a) ==
    [fn |-> "simple", width |-> a[A_width], height |-> a[A_height],
     border_width |-> a[A_border_width], border_color |-> a[A_color],
     corner_radius |-> DEFAULT_CORNER_RADIUS, inner_glow |-> TRUE]

DecorativeKw(a) ==
    [fn |-> "decorative", width |-> a[A_width], height |-> a[A_height],
     primary_color |-> a[A_color], secondary_color |-> a[A_secondary_color],
     accent_color |-> a[A_accent_color], border_width |-> a[A_border_width],
     corner_style |-> "rounded", show_corners |-> TRUE]

TextKw(a) ==
    [fn |-> "text", width |-> a[A_width], height |-> a[A_height],
     event_name |-> a[A_event], event_date |-> a[A_date],
     primary_color |-> a[A_color], text_color |-> a[A_text_color],
     border_width |-> a[A_border_width],
     text_position |-> a[A_text_position], font_path |-> a[A_font]]

GradientKw(a) ==
    [fn |-> "gradient", width |-> a[A_width], height |-> a[A_height],
     start_color |-> a[A_start_color], end_color |-> a[A_end_color],
     border_width |-> a[A_border_width],
     gradient_direction |-> a[A_gradient_direction]]

LogoKw(a) ==
    [fn |-> "logo", width |-> a[A_width], height |-> a[A_height],
     logo_path |-> a[A_logo], primary_color |-> a[A_color],
     border_width |-> a[A_border_width],
     logo_position |-> a[A_logo_position], logo_size |-> a[A_logo_size]]

Unbound == Raise("unbound")
NoCall == [fn |-> None]


(***************************************************************************)
(* Inputs.                                                                 *)
(***************************************************************************)
MaxConfigKeys == 2
FullScan == 48
ScanStride == 9
KeySpan == 2

FileSystem == ("logo.png" :> 200) @@ ("icon.png" :> 100)

\* Option groups of a command line; one choice of each is concatenated.
TypeOptions == {<<>>} \cup {<<<<<<"--", "type">>, t>>>> : t \in FrameTypes}
ColourOptions ==
    {<<>>, <<<<<<"--", "color">>, Black>>>>, <<<<<<"--", "primary", "-", "color">>, Teal>>>>,
     <<<<<<"--", "color">>, <<"#", "F", "F", "F">>>>>>}
SizeOptions ==
    {<<>>, <<<<<<"--", "width">>, 400>>, <<<<"--", "height">>, 400>>, <<<<"--", "border", "-", "width">>, 100>>>>}
ConfigOptions == {<<>>, <<<<<<"--", "config">>, "event_config.json">>>>}

CommandLines ==
    {t \o c \o z \o f : t \in TypeOptions, c \in ColourOptions,
                        z \in SizeOptions, f \in ConfigOptions}

\* Entries of a config file.
ConfigEntries ==
    { <<<<"type">>, "fancy">>, <<<<"type">>, "gradient">>,
      <<<<"color">>, Purple>>,
      <<<<"primary", "-", "color">>, Dark>>,
      <<<<"primary", "_", "color">>, Dark>>,
      <<<<"border", "-", "width">>, 40>>,
      <<<<"border", "_", "width">>, 30>>,
      <<<<"event", "-", "name">>, "Gala">>,
      <<<<"event", "-", "date">>, "May 1">>,
      <<<<"date">>, "Jun 2">>,
      <<<<"text", "-", "position">>, "both">>,
      <<<<"theme">>, "retro">> }

\* A JSON object has each key once.
Configs ==
    UNION {{c \in [1..n -> ConfigEntries] :
               \A i, j \in 1..n : i # j => c[i][1] # c[j][1]}
           : n \in 0..MaxConfigKeys}

(***************************************************************************)
(* main                                                                    *)
(***************************************************************************)
Init ==
    /\ pc = "start"
    /\ argv \in CommandLines
    /\ config \in (IF \E i \in 1..Len(argv) : argv[i][1] = <<"--", "config">>
                   THEN Configs ELSE {<<>>})
    /\ files = FileSystem
    /\ args = Defaults
    /\ kw = NoCall
    /\ frame = Unbound
    /\ invoked = <<>>
    /\ saved = <<>>
    /\ ret = Unbound
    /\ hex_color = <<>>
    /\ alpha = <<>>

ParseArgs ==
    /\ pc = "start"
    /\ args' = parse_args(argv)
    /\ pc' = "parsed"
    /\ UNCHANGED <<hex_color, alpha, ret, argv, config, files, kw, frame,
                   invoked, saved>>

\* if args.config: load_config and override
LoadConfig ==
    /\ pc = "parsed"
    /\ Truthy(args[A_config])
    /\ args' = ApplyConfig(args, config)
    /\ pc' = "dispatch"
    /\ UNCHANGED <<hex_color, alpha, ret, argv, config, files, kw, frame,
                   invoked, saved>>

SkipConfig ==
    /\ pc = "parsed"
    /\ ~Truthy(args[A_config])
    /\ pc' = "dispatch"
    /\ UNCHANGED <<hex_color, alpha, ret, argv, config, files, args, kw,
                   frame, invoked, saved>>

\* One branch of the if/elif chain on args.type: the generator is called
\* with the keyword arguments main builds from the namespace.
Generate(type, k) ==
    /\ pc = "dispatch"
    /\ args[A_type] = type
    /\ kw' = k
    /\ invoked' = Append(invoked, type)
    /\ pc' = "generating"
    /\ UNCHANGED <<hex_color, alpha, ret, argv, config, files, args, frame,
                   saved>>

\* The generator runs: it returns the frame, or raises out of its caller.
RunGenerator ==
    /\ pc = "generating"
    /\ ret' = CallGenerator(files, kw)
    /\ frame' = IF ret'.ok THEN ret' ELSE frame
    /\ pc' = IF ret'.ok THEN "generated" ELSE "raised"
    /\ UNCHANGED <<hex_color, alpha, argv, config, files, args, kw, invoked,
                   saved>>

GenerateSimple == Generate("simple", SimpleKw(args))
GenerateDecorative == Generate("decorative", DecorativeKw(args))
GenerateText == Generate("text", TextKw(args))
GenerateGradient == Generate("gradient", GradientKw(args))
GenerateLogo == Generate("logo", LogoKw(args))

\* No branch matches: save_frame(frame, ...) reads the unbound local.
NoBranch ==
    /\ pc = "dispatch"
    /\ args[A_type] \notin FrameTypes
    /\ pc' = "raised"
    /\ ret' = Raise("UnboundLocalError")
    /\ UNCHANGED <<hex_color, alpha, argv, config, files, args, kw, frame,
                   invoked, saved>>

SaveFrame ==
    /\ pc = "generated"
    /\ saved' = Append(saved, frame)
    /\ pc' = "done"
    /\ UNCHANGED <<hex_color, alpha, ret, argv, config, files, args, kw,
                   frame, invoked>>

Next ==
    \/ ParseArgs
    \/ LoadConfig
    \/ SkipConfig
    \/ GenerateSimple
    \/ GenerateDecorative
    \/ GenerateText
    \/ GenerateGradient
    \/ GenerateLogo
    \/ RunGenerator
    \/ NoBranch
    \/ SaveFrame

Spec == Init /\ [][Next]_vars


(***************************************************************************)
(* The generators called directly.                                         *)
(***************************************************************************)
\* <<width, height, border_width>>
SmallGeometries ==
    { <<9, 7, 0>>, <<9, 7, 1>>, <<9, 7, 2>>, <<9, 7, 3>>, <<9, 7, 4>>,
      <<40, 40, 10>>, <<40, 40, 19>>, <<40, 40, 20>>,
      <<48, 36, 5>>, <<48, 36, 12>>, <<48, 36, 17>> }
LargeGeometries ==
    { <<140, 150, 30>>, <<140, 150, 64>>, <<320, 320, 80>>,
      <<500, 490, 80>>, <<500, 490, 239>>, <<500, 490, 240>>,
      <<500, 490, 243>> }
Geometries == SmallGeometries \cup LargeGeometries
TextGeometries ==
    { <<48, 36, 12>>, <<140, 150, 30>>, <<140, 150, 48>>, <<140, 150, 49>>,
      <<500, 490, 80>>, <<500, 490, 115>>, <<500, 490, 116>>,
      <<500, 490, 117>>, <<500, 490, 118>> }

Faint == <<"1", "0", "1", "0", "1", "0">>
Fainter == <<"1", "8", "0", "C", "1", "0">>
GradientColours ==
    {<<Black, White>>, <<Pink, Purple>>, <<White, Dark>>, <<Faint, Fainter>>}

SimpleCalls ==
    {[fn |-> "simple", width |-> g[1], height |-> g[2],
      border_width |-> g[3], border_color |-> Pink, corner_radius |-> r,
      inner_glow |-> glow]
     : g \in Geometries, r \in {DEFAULT_CORNER_RADIUS, 0}, glow \in BOOLEAN}

DecorativeCalls ==
    {[fn |-> "decorative", width |-> g[1], height |-> g[2],
      primary_color |-> Pink, secondary_color |-> Dark,
      accent_color |-> White, border_width |-> g[3], corner_style |-> st,
      show_corners |-> sc]
     : g \in Geometries, st \in {"rounded", "square"}, sc \in BOOLEAN}

TextCalls ==
    {[fn |-> "text", width |-> g[1], height |-> g[2], event_name |-> "Gala",
      event_date |-> d, primary_color |-> Pink, text_color |-> White,
      border_width |-> g[3], text_position |-> tp, font_path |-> None]
     : g \in TextGeometries, d \in {None, "", "Jan 31, 2026"},
       tp \in {"top", "bottom", "both", "middle"}}

GradientCalls ==
    {[fn |-> "gradient", width |-> g[1], height |-> g[2],
      start_color |-> c[1], end_color |-> c[2], border_width |-> g[3],
      gradient_direction |-> dir]
     : g \in Geometries, c \in GradientColours,
       dir \in {"horizontal", "vertical", "diagonal"}}

LogoCalls ==
    {[fn |-> "logo", width |-> g[1], height |-> g[2], logo_path |-> path,
      primary_color |-> Pink, border_width |-> g[3], logo_position |-> lp,
      logo_size |-> 150]
     : g \in Geometries, path \in {None, "", "missing.png", "logo.png"},
       lp \in {"top", "bottom", "corners"}}

GeneratorCalls ==
    SimpleCalls \cup DecorativeCalls \cup TextCalls \cup GradientCalls
    \cup LogoCalls

InitFrame ==
    /\ pc = "generating"
    /\ kw \in GeneratorCalls
    /\ invoked = <<kw.fn>>
    /\ files = FileSystem
    /\ argv = <<>>
    /\ config = <<>>
    /\ args = Defaults
    /\ frame = Unbound
    /\ saved = <<>>
    /\ ret = Unbound
    /\ hex_color = <<>>
    /\ alpha = <<>>

NextFrame == RunGenerator

SpecFrame == InitFrame /\ [][NextFrame]_vars

(***************************************************************************)
(* The colour utilities called directly, and main given the colour.        *)
(***************************************************************************)
HexBodies == UNION {[1..n -> {"F", "1", "g"}] : n \in 0..MaxHexLen}
HexStrings == {h \o b : h \in {<<>>, <<"#">>, <<"#", "#">>}, b \in HexBodies}

AlphaArgs ==
    ((0 - AlphaSlack)..(0 - 1)) \cup {0, 80, 255}
    \cup (256..(255 + AlphaSlack))

InitColor ==
    /\ pc = "call"
    /\ hex_color \in HexStrings
    /\ alpha = <<>>
    /\ ret = Unbound
    /\ argv = <<>>
    /\ config = <<>>
    /\ files = FileSystem
    /\ args = Defaults
    /\ kw = NoCall
    /\ frame = Unbound
    /\ invoked = <<>>
    /\ saved = <<>>

CallHexToRgb ==
    /\ pc = "call"
    /\ ret' = hex_to_rgb(hex_color)
    /\ invoked' = <<"hex_to_rgb">>
    /\ pc' = "returned"
    /\ UNCHANGED <<hex_color, alpha, argv, config, files, args, kw, frame,
                   saved>>

\* hex_to_rgba(hex_color) or hex_to_rgba(hex_color, a)
CallHexToRgba ==
    /\ pc = "call"
    /\ \E a \in {<<>>} \cup {<<v>> : v \in AlphaArgs} :
          /\ alpha' = a
          /\ ret' = hex_to_rgba(hex_color,
                                IF a = <<>> THEN DefaultAlpha ELSE a[1])
    /\ invoked' = <<"hex_to_rgba">>
    /\ pc' = "returned"
    /\ UNCHANGED <<hex_color, argv, config, files, args, kw, frame, saved>>

\* main run with --color hex_color.
RunMainWithColour ==
    /\ pc = "call"
    /\ argv' = <<<<<<"--", "color">>, hex_color>>>>
    /\ pc' = "start"
    /\ UNCHANGED <<hex_color, alpha, ret, config, files, args, kw, frame,
                   invoked, saved>>

NextColor ==
    \/ CallHexToRgb
    \/ CallHexToRgba
    \/ RunMainWithColour
    \/ ParseArgs
    \/ SkipConfig
    \/ GenerateSimple
    \/ RunGenerator
    \/ SaveFrame

SpecColor == InitColor /\ [][NextColor]_vars


(***************************************************************************)
(* Pixels examined on a returned frame: every pixel of a canvas of at most *)
(* FullScan pixels a side; on a larger canvas the rows and columns through *)
(* the key coordinates, sampled every ScanStride pixels and within KeySpan *)
(* of each key coordinate.                                                 *)
(***************************************************************************)
KeyCoords(n, bw) ==
    {0, bw - bw \div 3, bw - 1, bw, 2 * bw, n \div 2, n - 2 * bw, n - bw - 1,
     n - bw, n - 1} \cap (0..(n - 1))

ScanCoords(n, bw) ==
    IF n <= FullScan THEN 0..(n - 1)
    ELSE {c \in 0..(n - 1) :
            \/ c % ScanStride = 0
            \/ \E k \in KeyCoords(n, bw) \cup {DEFAULT_CORNER_RADIUS,
                                               n - 1 - DEFAULT_CORNER_RADIUS} :
                  Abs(c - k) <= KeySpan}

Probes(w, h, bw) ==
    IF w <= FullScan /\ h <= FullScan THEN (0..(w - 1)) \X (0..(h - 1))
    ELSE (ScanCoords(w, bw) \X KeyCoords(h, bw))
         \cup (KeyCoords(w, bw) \X ScanCoords(h, bw))

\* Within border_width of a canvas edge.
InBand(x, y, w, h, bw) == x < bw \/ x >= w - bw \/ y < bw \/ y >= h - bw

Returned == pc = "generated" /\ frame.ok
ThinBorder == 2 * kw.border_width < Min(kw.width, kw.height)

(***************************************************************************)
(* C1: for the simple, decorative and gradient generators (and the logo    *)
(* generator when no logo is pasted), with border_width <                  *)
(* min(width, height) / 2, the pixel at the canvas centre                  *)
(* (width / 2, height / 2) of the returned frame has alpha 0.              *)
(***************************************************************************)
C1_CentreTransparent ==
    ( /\ Returned
      /\ kw.fn \in {"simple", "decorative", "gradient", "logo"}
      /\ kw.fn = "logo" => ~LogoPresent(files, kw.logo_path)
      /\ ThinBorder )
    => Pixel(frame, kw.width \div 2, kw.height \div 2)[4] = 0

(***************************************************************************)
(* C2 as claimed: in the frame of generate_simple_border_frame, glow on or *)
(* off, with 2 * border_width < min(width, height), every pixel within     *)
(* border_width of an edge and inside the outer rounded silhouette has     *)
(* alpha > 0.                                                              *)
(***************************************************************************)
InSilhouette(x, y) ==
    InRoundedRect(x, y, 0, 0, kw.width - 1, kw.height - 1, kw.corner_radius)

BandOpaqueAt(p) ==
    ( /\ InBand(p[1], p[2], kw.width, kw.height, kw.border_width)
      /\ InSilhouette(p[1], p[2]) )
    => Pixel(frame, p[1], p[2])[4] > 0

C2_BandOpaque_Claimed ==
    (Returned /\ kw.fn = "simple" /\ ThinBorder)
    => \A p \in Probes(kw.width, kw.height, kw.border_width) : BandOpaqueAt(p)

(***************************************************************************)
(* C2 amended: the same with inner glow off for every such border_width,   *)
(* and with inner glow on for border_width \div 3 < 80, that is            *)
(* border_width < 240; from 240 on the innermost glow outline is drawn     *)
(* with alpha 0 over the band.                                             *)
(***************************************************************************)
C2_BandOpaque ==
    ( /\ Returned
      /\ kw.fn = "simple"
      /\ ThinBorder
      /\ kw.inner_glow => kw.border_width \div 3 < 80 )
    => \A p \in Probes(kw.width, kw.height, kw.border_width) : BandOpaqueAt(p)

\* A glow outline on the band of a returned simple frame: translucent, not 0.
C2_Witness ==
    /\ Returned
    /\ kw.fn = "simple"
    /\ ThinBorder
    /\ kw.inner_glow
    /\ kw.border_width = 239
    /\ Pixel(frame, 238, kw.height \div 2)[4] = 1
    /\ Pixel(frame, 3, kw.height \div 2)[4] = 255


(***************************************************************************)
(* C3 as claimed: in every run of main the resolved type is one of the     *)
(* five frame types, exactly one generator, the one it names, is invoked,  *)
(* and save_frame is only reached with the frame that generator returned.  *)
(***************************************************************************)
AfterConfig == pc \in {"dispatch", "generating", "generated", "done", "raised"}
Ended == pc \in {"done", "raised"}

C3_OneGeneratorThenSave ==
    /\ AfterConfig => args[A_type] \in FrameTypes
    /\ Ended => Len(invoked) = 1 /\ invoked[1] = args[A_type]
    /\ saved # <<>> => frame.ok /\ saved = <<frame>> /\ Len(invoked) = 1

(***************************************************************************)
(* C4 as claimed: a config key equal, in hyphen or underscore form, to any *)
(* option string of the interface (aliases included) overrides the         *)
(* parameter that option sets, also when the option was given on the       *)
(* command line; any other key changes nothing.                            *)
(***************************************************************************)
Hyphenated(key) == [i \in 1..Len(key) |-> IF key[i] = "_" THEN "-" ELSE key[i]]
Underscored(key) == [i \in 1..Len(key) |-> IF key[i] = "-" THEN "_" ELSE key[i]]
SetMax(S) == CHOOSE m \in S : \A n \in S : n <= m

\* The config entries naming an option string that stores to attribute a.
NamesOptionOf(a) ==
    {i \in 1..Len(config) :
        LET flag == <<"--">> \o Hyphenated(config[i][1])
        IN  flag \in OptionStrings /\ Dest(flag) = a}

\* The config entries whose key is the attribute name a itself.
NamesAttribute(a) ==
    {i \in 1..Len(config) : Underscored(config[i][1]) = a}

Overridden(hits(_)) ==
    [a \in DOMAIN Defaults |->
        IF hits(a) = {} THEN parse_args(argv)[a]
        ELSE config[SetMax(hits(a))][2]]

KwOf(a) ==
    CASE a[A_type] = "simple" -> SimpleKw(a)
      [] a[A_type] = "decorative" -> DecorativeKw(a)
      [] a[A_type] = "text" -> TextKw(a)
      [] a[A_type] = "gradient" -> GradientKw(a)
      [] a[A_type] = "logo" -> LogoKw(a)

ConfigRead == \E i \in 1..Len(argv) : argv[i][1] = <<"--", "config">>

C4_FlagNamesOverride_Claimed ==
    (AfterConfig /\ ConfigRead)
    => /\ args = Overridden(NamesOptionOf)
       /\ pc = "generating" => kw = KwOf(Overridden(NamesOptionOf))

(***************************************************************************)
(* C4 amended: a config key equal, in hyphen or underscore form, to the    *)
(* destination name of an option (its first long option string: color,     *)
(* event, date, border-width, ...) overrides the parameter passed to the   *)
(* generator, also when the option was given on the command line; any      *)
(* other key, the alias forms primary-color, event-name and event-date     *)
(* included, leaves every parameter unchanged and raises no error.         *)
(***************************************************************************)
C4_DestNamesOverride ==
    (AfterConfig /\ ConfigRead)
    => /\ args = Overridden(NamesAttribute)
       /\ pc = "generating" => kw = KwOf(Overridden(NamesAttribute))

\* --border-width 100 on the command line, "border-width": 40 and
\* "primary-color" in the config: the generator gets 40 and the default colour.
C4_Witness ==
    /\ pc = "generating"
    /\ argv = <<<<<<"--", "width">>, 400>>, <<<<"--", "height">>, 400>>,
                <<<<"--", "border", "-", "width">>, 100>>,
                <<<<"--", "config">>, "event_config.json">>>>
    /\ config = <<<<<<"border", "-", "width">>, 40>>,
                  <<<<"primary", "-", "color">>, Dark>>>>
    /\ kw.fn = "simple"
    /\ kw.border_width = 40
    /\ kw.border_color = Pink


(***************************************************************************)
(* C5 as claimed: hex_to_rgb fails for every string that, after stripping  *)
(* the leading '#', is not exactly 6 hex digits, and returns three         *)
(* integers in 0..255 for exactly 6 hex digits; a generator given a        *)
(* malformed colour raises and save_frame is never called.                 *)
(***************************************************************************)
HexDigits ==
    {"0", "1", "2", "3", "4", "5", "6", "7", "8", "9",
     "a", "b", "c", "d", "e", "f", "A", "B", "C", "D", "E", "F"}

LeadingHashes(s) ==
    CHOOSE n \in 0..Len(s) :
        /\ \A i \in 1..n : s[i] = "#"
        /\ n = Len(s) \/ s[n + 1] # "#"

Body(s) == SubSeq(s, LeadingHashes(s) + 1, Len(s))

SixHexDigits(h) == Len(h) = 6 /\ \A i \in 1..6 : h[i] \in HexDigits

Channel(h, k) == 16 * HexDigitValue(h[2 * k - 1]) + HexDigitValue(h[2 * k])

RgbReturned == pc = "returned" /\ invoked = <<"hex_to_rgb">>
RgbaReturned == pc = "returned" /\ invoked = <<"hex_to_rgba">>
MainEnded == Ended /\ invoked = <<"simple">>

C5_MalformedRejected_Claimed ==
    /\ RgbReturned =>
          IF SixHexDigits(Body(hex_color))
          THEN ret.ok /\ \A k \in 1..3 : ret.val[k] \in 0..255
          ELSE ~ret.ok
    /\ (MainEnded /\ ~SixHexDigits(Body(hex_color))) =>
          pc = "raised" /\ saved = <<>>

(***************************************************************************)
(* C5 amended: on strings of '#', hex digits and other letters, hex_to_rgb *)
(* raises (ValueError) exactly when the string left after stripping every  *)
(* leading '#' has fewer than 5 characters or a non-hex character among    *)
(* its first six; characters after the sixth are ignored and a 5-digit     *)
(* string is accepted.  For exactly 6 hex digits it returns the three      *)
(* channel values, each in 0..255.  When hex_to_rgb raises inside a        *)
(* generator the error propagates out of main and save_frame is never      *)
(* called.                                                                 *)
(***************************************************************************)
Rejected(h) ==
    \/ Len(h) < 5
    \/ \E i \in 1..Min(6, Len(h)) : h[i] \notin HexDigits

C5_MalformedRejected ==
    /\ RgbReturned =>
          /\ ret.ok <=> ~Rejected(Body(hex_color))
          /\ ~ret.ok => ret.err = "ValueError"
          /\ SixHexDigits(Body(hex_color)) =>
                /\ ret.val = <<Channel(Body(hex_color), 1),
                               Channel(Body(hex_color), 2),
                               Channel(Body(hex_color), 3)>>
                /\ \A k \in 1..3 : ret.val[k] \in 0..255
    /\ (MainEnded /\ Rejected(Body(hex_color))) =>
          pc = "raised" /\ ret.err = "ValueError" /\ saved = <<>>
    /\ saved # <<>> => ~Rejected(Body(hex_color))

\* main given --color #FFF: the generator raises and nothing is saved.
C5_Witness ==
    /\ pc = "raised"
    /\ invoked = <<"simple">>
    /\ hex_color = <<"#", "F", "F", "F">>
    /\ ret.err = "ValueError"
    /\ saved = <<>>

(***************************************************************************)
(* C6 as claimed: for a valid 6-hex-digit string and any integer alpha,    *)
(* hex_to_rgba returns the RGB triple followed by alpha clamped to         *)
(* 0..255; with the default alpha the fourth component is 255.             *)
(***************************************************************************)
RgbaOf(a) ==
    /\ ret.ok
    /\ ret.val = <<Channel(Body(hex_color), 1), Channel(Body(hex_color), 2),
                   Channel(Body(hex_color), 3), a>>

C6_AlphaClamped_Claimed ==
    (RgbaReturned /\ SixHexDigits(Body(hex_color)))
    => RgbaOf(IF alpha = <<>> THEN 255 ELSE Max(0, Min(255, alpha[1])))

(***************************************************************************)
(* C6 amended: for a valid 6-hex-digit string and any integer alpha,       *)
(* hex_to_rgba returns the RGB triple followed by the alpha it was given,  *)
(* unchanged (an alpha below 0 or above 255 is not clamped); with the      *)
(* default alpha the fourth component is 255.                              *)
(***************************************************************************)
C6_AlphaPassedThrough ==
    (RgbaReturned /\ SixHexDigits(Body(hex_color)))
    => RgbaOf(IF alpha = <<>> THEN 255 ELSE alpha[1])

\* hex_to_rgba("#FF1F11", 256) returned (255, 31, 17, 256).
C6_Witness ==
    /\ RgbaReturned
    /\ hex_color = <<"#", "F", "F", "1", "F", "1", "1">>
    /\ alpha = <<256>>
    /\ ret.val = <<255, 31, 17, 256>>


(***************************************************************************)
(* C7 as claimed: in the horizontal gradient frame every border pixel of   *)
(* column 0 has exactly the start colour, and every border pixel of column *)
(* width - 1 has each RGB channel within 1 of the end colour, for every    *)
(* width and colour pair.                                                  *)
(***************************************************************************)
HorizontalReturned ==
    Returned /\ kw.fn = "gradient" /\ kw.gradient_direction = "horizontal"

StartRgb == hex_to_rgb(kw.start_color).val
EndRgb == hex_to_rgb(kw.end_color).val

BandRows(x) ==
    {p[2] : p \in {q \in Probes(kw.width, kw.height, kw.border_width) :
                     /\ q[1] = x
                     /\ InBand(x, q[2], kw.width, kw.height, kw.border_width)}}

FirstColumnIsStart ==
    \A y \in BandRows(0) : \A c \in 1..3 : Pixel(frame, 0, y)[c] = StartRgb[c]

LastColumnWithin(tol(_)) ==
    \A y \in BandRows(kw.width - 1) : \A c \in 1..3 :
        Abs(Pixel(frame, kw.width - 1, y)[c] - EndRgb[c]) <= tol(c)

C7_GradientEnds_Claimed ==
    HorizontalReturned
    => FirstColumnIsStart /\ LET One(c) == 1 IN LastColumnWithin(One)

(***************************************************************************)
(* C7 amended: every border pixel of column 0 has exactly the start        *)
(* colour; every border pixel of column width - 1 has each RGB channel     *)
(* within ceil(|end - start| / width) of the end colour's channel, which   *)
(* is within 1 when |end - start| <= width for that channel (so for every  *)
(* width >= 255) and further off on a narrower canvas.                     *)
(***************************************************************************)
ChannelStep(c) ==
    (Abs(EndRgb[c] - StartRgb[c]) + kw.width - 1) \div kw.width

C7_GradientEnds ==
    HorizontalReturned
    => /\ FirstColumnIsStart
       /\ LastColumnWithin(ChannelStep)
       /\ \A c \in 1..3 :
             Abs(EndRgb[c] - StartRgb[c]) <= kw.width => ChannelStep(c) <= 1

\* Black to white over 500 columns: 0 in the first column, 254 in the last.
C7_Witness ==
    /\ HorizontalReturned
    /\ kw.width = 500
    /\ kw.border_width = 80
    /\ StartRgb = <<0, 0, 0>>
    /\ EndRgb = <<255, 255, 255>>
    /\ Pixel(frame, 0, 245) = <<0, 0, 0, 255>>
    /\ Pixel(frame, 499, 245) = <<254, 254, 254, 255>>


(***************************************************************************)
(* C8 as claimed: for every width, height, border_width, logo_position and *)
(* logo_size, generate_logo_frame with an absent (None or empty) or        *)
(* nonexistent logo path raises no error and returns a frame               *)
(* pixel-identical to that of generate_simple_border_frame with the same   *)
(* width, height, border_width and border colour.                          *)
(***************************************************************************)
LogoCallEnded ==
    pc \in {"generated", "raised"} /\ kw.fn = "logo"

NoLogo == ~LogoPresent(files, kw.logo_path)

SimpleCounterpart ==
    generate_simple_border_frame(kw.width, kw.height, kw.border_width,
                                 kw.primary_color, DEFAULT_CORNER_RADIUS, TRUE)

PixelIdentical(f, g) ==
    /\ f.val.width = g.val.width
    /\ f.val.height = g.val.height
    /\ \A p \in Probes(kw.width, kw.height, kw.border_width) :
          Pixel(f, p[1], p[2]) = Pixel(g, p[1], p[2])

C8_NoLogoIsSimple_Claimed ==
    (LogoCallEnded /\ NoLogo)
    => /\ ret.ok
       /\ SimpleCounterpart.ok
       /\ PixelIdentical(ret, SimpleCounterpart)

(***************************************************************************)
(* C8 amended: with an absent or nonexistent logo path generate_logo_frame *)
(* behaves as generate_simple_border_frame with the same width, height,    *)
(* border_width and border colour: it raises exactly when that call        *)
(* raises, with the same error (ValueError when the border leaves no       *)
(* interior), and otherwise returns a pixel-identical frame; the missing   *)
(* logo itself raises nothing, whatever logo_position and logo_size.       *)
(***************************************************************************)
C8_NoLogoIsSimple ==
    (LogoCallEnded /\ NoLogo)
    => /\ ret.ok <=> SimpleCounterpart.ok
       /\ ~ret.ok => ret.err = SimpleCounterpart.err
       /\ ret.ok => /\ PixelIdentical(ret, SimpleCounterpart)
                    /\ \A k \in 1..Len(ret.val.ops) :
                          ret.val.ops[k].tag # "logo"
       /\ ret.ok <=> ~InnerEmpty(kw.width, kw.height, kw.border_width)

\* A nonexistent path: the frame is returned, glow included, with no logo.
C8_Witness ==
    /\ LogoCallEnded
    /\ kw.logo_path = "missing.png"
    /\ kw.logo_position = "corners"
    /\ kw.width = 500
    /\ kw.border_width = 80
    /\ ret.ok
    /\ PixelIdentical(ret, SimpleCounterpart)
    /\ Pixel(ret, 3, 245)[4] = 255
    /\ Pixel(ret, 79, 245)[4] \in 1..80


(***************************************************************************)
(* C9: in the frame of generate_decorative_frame with show_corners, every  *)
(* pixel painted by the corner decorations (circles of radius 20 and 10    *)
(* centred border_width * 2 from each canvas corner) lies on the border    *)
(* band, outside the interior rectangle inset by border_width.             *)
(***************************************************************************)
PaintedByCorner(x, y) ==
    \E k \in 1..Len(frame.val.ops) :
        frame.val.ops[k].tag = "corner" /\ Covers(frame.val.ops[k], x, y)

C9_CornersOnBand ==
    (Returned /\ kw.fn = "decorative" /\ kw.show_corners)
    => \A p \in Probes(kw.width, kw.height, kw.border_width) :
          PaintedByCorner(p[1], p[2])
          => InBand(p[1], p[2], kw.width, kw.height, kw.border_width)


(***************************************************************************)
(* C10: in the frame of generate_text_frame the event name is drawn in the *)
(* bottom band iff text_position is bottom or both; the date is drawn      *)
(* there, 50 px below the name, iff moreover a date is supplied and        *)
(* date_y + 32 < height; in the top band (text_position top or both) the   *)
(* date is drawn, 8 px lower, iff text_position is both and a date is      *)
(* supplied, and otherwise the event name; with text_position bottom       *)
(* nothing is drawn in the top band.  A line is placed so that a 48 px     *)
(* title is centred on its band.                                           *)
(***************************************************************************)
TextReturned == Returned /\ kw.fn = "text"

\* The lines of text drawn on the frame: <<text, y, font>>.
TextLines ==
    LET ops == frame.val.ops
        drawn == {k \in 1..Len(ops) : ops[k].kind = "text"}
    IN  {<<ops[k].text, ops[k].y, ops[k].font>> :
            k \in {j \in drawn : ops[j].tag = "text"}}

TextOpCount ==
    Cardinality({k \in 1..Len(frame.val.ops) :
                    frame.val.ops[k].kind = "text"})

CentredTitleY(band_top) == band_top + (kw.border_width - 48) \div 2

DateSupplied == kw.event_date \notin {None, ""}

NameAtBottom == kw.text_position \in {"bottom", "both"}
DateAtBottom ==
    /\ NameAtBottom
    /\ DateSupplied
    /\ CentredTitleY(kw.height - kw.border_width) + 50 + 32 < kw.height
DateAtTop == kw.text_position = "both" /\ DateSupplied
NameAtTop == kw.text_position \in {"top", "both"} /\ ~DateAtTop

ExpectedLines ==
    (IF NameAtBottom
     THEN {<<kw.event_name, CentredTitleY(kw.height - kw.border_width),
             "title_font">>}
     ELSE {})
    \cup (IF DateAtBottom
          THEN {<<kw.event_date,
                  CentredTitleY(kw.height - kw.border_width) + 50,
                  "date_font">>}
          ELSE {})
    \cup (IF DateAtTop
          THEN {<<kw.event_date, CentredTitleY(0) + 8, "date_font">>}
          ELSE {})
    \cup (IF NameAtTop
          THEN {<<kw.event_name, CentredTitleY(0), "title_font">>}
          ELSE {})

C10_TextPlacement ==
    TextReturned
    => /\ TextLines = ExpectedLines
       /\ TextOpCount = 2 * Cardinality(ExpectedLines)
       /\ kw.text_position = "bottom"
             => \A l \in TextLines : l[2] >= CentredTitleY(kw.height
                                                           - kw.border_width)

\* Position both with a date on a 117 px border: the name and, 50 px lower,
\* the date at the bottom, the date alone at the top.
C10_Witness ==
    /\ TextReturned
    /\ kw.text_position = "both"
    /\ kw.event_date = "Jan 31, 2026"
    /\ kw.height = 490
    /\ kw.border_width = 117
    /\ TextLines = {<<"Gala", 407, "title_font">>,
                    <<"Jan 31, 2026", 457, "date_font">>,
                    <<"Jan 31, 2026", 42, "date_font">>}


(***************************************************************************)
(* C11: in the frame of generate_simple_border_frame with inner glow,      *)
(* exactly border_width \div 3 outlines of width 1 are drawn, at the       *)
(* consecutive inset offsets border_width - border_width \div 3 up to      *)
(* border_width - 1 (none at an offset >= border_width), in the border     *)
(* colour; their alpha is 80 at the outermost outline, follows the line    *)
(* 80 * (1 - i / glow_width) truncated, never increases from one outline   *)
(* to the next one inward and is always within 0..80.                      *)
(***************************************************************************)
GlowReturned == Returned /\ kw.fn = "simple" /\ kw.inner_glow

IsGlow(op) == op.tag = "glow"

GlowOutlines == SelectSeq(frame.val.ops, IsGlow)

GlowCount == kw.border_width \div 3

OutlineAt(op, offset) ==
    /\ op.kind = "outline"
    /\ op.lw = 1
    /\ op.x0 = offset
    /\ op.y0 = offset
    /\ op.x1 = kw.width - offset - 1
    /\ op.y1 = kw.height - offset - 1

\* alpha on the line from 80 down to 0, truncated (at most one below the
\* exact quotient, never above it).
OnFade(a, i) ==
    /\ a * GlowCount <= 80 * (GlowCount - i)
    /\ 80 * (GlowCount - i) < (a + 2) * GlowCount

C11_GlowOutlines ==
    GlowReturned
    => LET g == GlowOutlines
           rgb == hex_to_rgb(kw.border_color).val
       IN  /\ Len(g) = GlowCount
           /\ \A k \in 1..Len(g) :
                 /\ OutlineAt(g[k], kw.border_width - GlowCount + k - 1)
                 /\ g[k].x0 < kw.border_width
                 /\ <<g[k].ink[1], g[k].ink[2], g[k].ink[3]>> = rgb
                 /\ g[k].ink[4] \in 0..80
                 /\ OnFade(g[k].ink[4], k - 1)
                 /\ k = 1 => g[k].ink[4] = 80
                 /\ k < Len(g) => g[k + 1].ink[4] <= g[k].ink[4]

\* border_width 80: 26 outlines, from offset 54 with alpha 80 to offset 79
\* with alpha 3.
C11_Witness ==
    /\ GlowReturned
    /\ kw.border_width = 80
    /\ kw.width = 500
    /\ Len(GlowOutlines) = 26
    /\ GlowOutlines[1].x0 = 54
    /\ GlowOutlines[1].ink[4] = 80
    /\ GlowOutlines[26].x0 = 79
    /\ GlowOutlines[26].ink[4] = 3

====
